---- MODULE Spec2Model ----
(***************************************************************************)
(* A model of yawmak's persistence layer (src/src/database.rs): the five   *)
(* tables of the store, their id sequences, and the operations of          *)
(* Database, each translated statement by statement from its SQL.          *)
(*                                                                         *)
(* Strings are sequences of lexemes (a word, a quote, a comma, ...), so    *)
(* that the SQL text which update_task builds by interpolation is built    *)
(* here the same way and then parsed, and so that the split of a tag       *)
(* argument at its commas is computed.  Dates are the strings the CLI      *)
(* accepts (YYYY-MM-DD); NULL is the SQL null.                             *)
(***************************************************************************)
EXTENDS Integers, Sequences, FiniteSets, TLC

VARIABLES todos, todo_id_seq, categories, category_id_seq, tags, tag_id_seq,
          todo_categories, todo_tags, file, last, steps

vars == <<todos, todo_id_seq, categories, category_id_seq, tags, tag_id_seq,
          todo_categories, todo_tags, file, last, steps>>

(***************************************************************************)
(* Bounds and input domains.                                               *)
(***************************************************************************)
\* Number of operations performed on the store in one behaviour.
MaxOps == 3

NULL == "NULL"
None == <<"None">>

\* CURRENT_DATE of the run.
Today == "2026-01-01"

\* Texts holding a quote, as given to update_task:
\*   it's
\*   x', due_date = '2026-01-01
\*   x' WHERE id = ?1 --
\*   x' WHERE 1 = 1 OR id = ?1 --
QuotedNames == {<<"it", "'", "s">>,
                <<"x", "'", ",", "due_date", "=", "'", "2026-01-01">>,
                <<"x", "'", "WHERE", "id", "=", "?1", "--">>,
                <<"x", "'", "WHERE", "1", "=", "1", "OR", "id", "=", "?1", "--">>}
\* Names given to add-category, delete-category, add-tag and delete-tag.
CategoryNames == {<<"Personal">>}
TagNames == {<<"test">>}
Strategies == {"skip", "remove", "upsert", "replace"}
\* The formats export writes in a run, and the format tokens given to import.
Formats == {"json", "csv"}
ImportFormats == Formats \cup {"parquet", "xlsx"}
\* Queries given to search.
Queries == {<<"a">>, <<"A">>, <<"Personal">>, <<"test">>, <<"'", "s">>}

(***************************************************************************)
(* Values.                                                                 *)
(***************************************************************************)
Range(s) == {s[i] : i \in DOMAIN s}

EmptyTable == [i \in {} |-> NULL]

Put(f, k, v) == [i \in DOMAIN f \cup {k} |-> IF i = k THEN v ELSE f[i]]

\* Rendering of an i32 by format!("{}") and its reading by the SQL parser.
Digits == <<"0", "1", "2", "3", "4", "5", "6", "7", "8", "9">>

IntToStr(n) == Digits[n + 1]

IsNumTok(t) == t \in Range(Digits)

StrToInt(t) == CHOOSE n \in 0..9 : Digits[n + 1] = t

\* The calendar: a DATE is held as days since 1970-01-01 (Date32).
Calendar == {<<"2024-12-31", 20088>>, <<"2025-01-01", 20089>>, <<"2026-01-01", 20454>>}

IsDate(s) == \E c \in Calendar : c[1] = s

\* CAST('YYYY-MM-DD' AS DATE)
DaysOf(s) == (CHOOSE c \in Calendar : c[1] = s)[2]

\* NaiveDate::from_ymd_opt(1970, 1, 1) + Duration::days(date32), rendered %Y-%m-%d
DateOf(days) == (CHOOSE c \in Calendar : c[2] = days)[1]

\* A DATE column read by get_tasks: Some(date) for a Date32, None otherwise.
ReadDate(col) == IF col = NULL THEN NULL ELSE DateOf(DaysOf(col))

(***************************************************************************)
(* The store: todos and the two name tables are keyed by their primary key;*)
(* the junction tables are row lists in insertion order.                   *)
(***************************************************************************)
DB == [todos |-> todos, todo_id_seq |-> todo_id_seq,
       categories |-> categories, category_id_seq |-> category_id_seq,
       tags |-> tags, tag_id_seq |-> tag_id_seq,
       todo_categories |-> todo_categories, todo_tags |-> todo_tags]

\* Database::new on a fresh file: empty tables, sequences at their start.
NewDb == [todos |-> EmptyTable, todo_id_seq |-> 1,
          categories |-> EmptyTable, category_id_seq |-> 1,
          tags |-> EmptyTable, tag_id_seq |-> 1,
          todo_categories |-> <<>>, todo_tags |-> <<>>]

\* The file of a store that was never opened: it holds no table and no
\* sequence.
NoStore == [name \in {} |-> EmptyTable]

\* CREATE OR REPLACE: the object is created anew, whether it exists or not.
CreateOrReplace(stored, name, fresh) == fresh

\* CREATE SEQUENCE IF NOT EXISTS / CREATE TABLE IF NOT EXISTS: the object of
\* that name is kept as it is when the file holds one.
CreateIfNotExists(stored, name, fresh) ==
    IF name \in DOMAIN stored THEN stored[name] ELSE fresh

\* Database::new once its extensions are installed and loaded: the three
\* sequences and the five tables, each created if the file does not hold it.
Database_new(stored) ==
    [todo_id_seq |-> CreateIfNotExists(stored, "todo_id_seq", 1),
     category_id_seq |-> CreateIfNotExists(stored, "category_id_seq", 1),
     tag_id_seq |-> CreateIfNotExists(stored, "tag_id_seq", 1),
     todos |-> CreateIfNotExists(stored, "todos", EmptyTable),
     categories |-> CreateIfNotExists(stored, "categories", EmptyTable),
     tags |-> CreateIfNotExists(stored, "tags", EmptyTable),
     todo_categories |-> CreateIfNotExists(stored, "todo_categories", <<>>),
     todo_tags |-> CreateIfNotExists(stored, "todo_tags", <<>>)]

\* The connection of a run: the store as Database::new leaves it.
Conn == Database_new(DB)

Ok(db) == [db |-> db, res |-> "ok"]

\* let x = ...; F(x)
Bind(x, F(_)) == F(x)

Err(db, e) == [db |-> db, res |-> e]

(***************************************************************************)
(* Categories and tags.                                                    *)
(***************************************************************************)
\* SELECT id FROM <table> WHERE name = ?1, as the set of matching keys.
IdsNamed(table, name) == {i \in DOMAIN table : table[i] = name}

\* The insert without OR IGNORE and without the UNIQUE constraint on name.
InsertOrIgnoreCategory_Plain(db, name) ==
    [db EXCEPT !.category_id_seq = @ + 1,
               !.categories = Put(@, db.category_id_seq, name)]

\* INSERT OR IGNORE INTO categories (name) VALUES (?1): the DEFAULT draws
\* nextval('category_id_seq') for the candidate row; a row whose name is
\* already there (name TEXT UNIQUE) is dropped.
InsertOrIgnoreCategory(db, name) ==
    LET id == db.category_id_seq
        db1 == [db EXCEPT !.category_id_seq = @ + 1]
    IN  IF IdsNamed(db.categories, name) # {} \/ id \in DOMAIN db.categories
        THEN db1
        ELSE [db1 EXCEPT !.categories = Put(@, id, name)]

add_category(db, name) ==
    Bind(InsertOrIgnoreCategory(db, name), LAMBDA db1 :
         LET count == Cardinality(IdsNamed(db1.categories, name))
         IN  IF count = 0 THEN Err(db1, "Category already exists.") ELSE Ok(db1))

\* query_row: the first row, or QueryReturnedNoRows.
get_category_id(db, name) ==
    IF IdsNamed(db.categories, name) = {}
    THEN [res |-> "no rows", id |-> 0]
    ELSE [res |-> "ok", id |-> CHOOSE i \in IdsNamed(db.categories, name) : TRUE]

\* DELETE FROM categories WHERE name = ?1; todo_categories.category_id
\* REFERENCES categories(id).
\* DELETE FROM categories WHERE name = ?1 on a table no foreign key refers to.
delete_category_Unchecked(db, name) ==
    Ok([db EXCEPT !.categories =
               [i \in DOMAIN @ \ IdsNamed(db.categories, name) |-> @[i]]])

delete_category(db, name) ==
    LET hit == IdsNamed(db.categories, name)
    IN  IF \E k \in DOMAIN db.todo_categories : db.todo_categories[k][2] \in hit
        THEN Err(db, "foreign key")
        ELSE Ok([db EXCEPT !.categories = [i \in DOMAIN @ \ hit |-> @[i]]])

InsertOrIgnoreTag(db, name) ==
    LET id == db.tag_id_seq
        db1 == [db EXCEPT !.tag_id_seq = @ + 1]
    IN  IF IdsNamed(db.tags, name) # {} \/ id \in DOMAIN db.tags
        THEN db1
        ELSE [db1 EXCEPT !.tags = Put(@, id, name)]

add_tag(db, name) ==
    Bind(InsertOrIgnoreTag(db, name), LAMBDA db1 :
         LET count == Cardinality(IdsNamed(db1.tags, name))
         IN  IF count = 0 THEN Err(db1, "Tag already exists.") ELSE Ok(db1))

get_tag_id(db, name) ==
    IF IdsNamed(db.tags, name) = {}
    THEN [res |-> "no rows", id |-> 0]
    ELSE [res |-> "ok", id |-> CHOOSE i \in IdsNamed(db.tags, name) : TRUE]

delete_tag(db, name) ==
    LET hit == IdsNamed(db.tags, name)
    IN  IF \E k \in DOMAIN db.todo_tags : db.todo_tags[k][2] \in hit
        THEN Err(db, "foreign key")
        ELSE Ok([db EXCEPT !.tags = [i \in DOMAIN @ \ hit |-> @[i]]])

\* SELECT name FROM categories / tags
list_categories(db) == {db.categories[i] : i \in DOMAIN db.categories}

list_tags(db) == {db.tags[i] : i \in DOMAIN db.tags}

(***************************************************************************)
(* The junction tables.                                                    *)
(***************************************************************************)
\* INSERT INTO todo_categories (todo_id, category_id) VALUES (?1, ?2), with
\* FOREIGN KEY(todo_id) REFERENCES todos(id) and
\* FOREIGN KEY(category_id) REFERENCES categories(id).
InsertTodoCategory(db, todo_id, category_id) ==
    IF todo_id \in DOMAIN db.todos /\ category_id \in DOMAIN db.categories
    THEN Ok([db EXCEPT !.todo_categories = Append(@, <<todo_id, category_id>>)])
    ELSE Err(db, "foreign key")

InsertTodoTag(db, todo_id, tag_id) ==
    IF todo_id \in DOMAIN db.todos /\ tag_id \in DOMAIN db.tags
    THEN Ok([db EXCEPT !.todo_tags = Append(@, <<todo_id, tag_id>>)])
    ELSE Err(db, "foreign key")

\* update_task without its DELETE FROM todo_categories.
DeleteTodoCategories_None(db, todo_id) == db

\* DELETE FROM todo_categories WHERE todo_id = ?1
DeleteTodoCategories(db, todo_id) ==
    [db EXCEPT !.todo_categories = SelectSeq(@, LAMBDA r : r[1] # todo_id)]

\* DELETE FROM todo_tags WHERE todo_id = ?1
DeleteTodoTags(db, todo_id) ==
    [db EXCEPT !.todo_tags = SelectSeq(@, LAMBDA r : r[1] # todo_id)]

\* The three statements as one transaction: a failure of the junction insert
\* undoes the category created before it.
AttachCategory_Atomic(db, todo_id, category, clear) ==
    IF todo_id \notin DOMAIN db.todos THEN Err(db, "foreign key")
    ELSE Bind(add_category(db, category), LAMBDA a :
              InsertTodoCategory(IF clear THEN DeleteTodoCategories(a.db, todo_id)
                                 ELSE a.db,
                                 todo_id, get_category_id(a.db, category).id))

\* add_category, get_category_id and the junction insert, each with `?`.
AttachCategory(db, todo_id, category, clear) ==
    Bind(add_category(db, category), LAMBDA a :
         IF a.res # "ok" THEN a
         ELSE Bind(get_category_id(a.db, category), LAMBDA g :
                   IF g.res # "ok" THEN Err(a.db, g.res)
                   ELSE IF clear
                   THEN InsertTodoCategory(DeleteTodoCategories(a.db, todo_id),
                                           todo_id, g.id)
                   ELSE InsertTodoCategory(a.db, todo_id, g.id)))

\* One turn of the loop over the tags: add_tag, get_tag_id, the junction insert.
AttachTag(db, todo_id, tag) ==
    Bind(add_tag(db, tag), LAMBDA a :
         IF a.res # "ok" THEN a
         ELSE Bind(get_tag_id(a.db, tag), LAMBDA g :
                   IF g.res # "ok" THEN Err(a.db, g.res)
                   ELSE InsertTodoTag(a.db, todo_id, g.id)))

\* The loop over the tags, left at the first error.
RECURSIVE AttachTags(_, _, _)
AttachTags(db, todo_id, tagList) ==
    IF tagList = <<>> THEN Ok(db)
    ELSE Bind(AttachTag(db, todo_id, Head(tagList)), LAMBDA r :
              IF r.res # "ok" THEN r ELSE AttachTags(r.db, todo_id, Tail(tagList)))

(***************************************************************************)
(* Tasks.                                                                  *)
(***************************************************************************)
\* Task::new: the task as the add command builds it.
NewTask(name, category, due_date, tagList, priority) ==
    [id |-> 0, name |-> name, category |-> category, tags |-> tagList,
     done |-> FALSE, due_date |-> due_date, completion_date |-> NULL,
     priority |-> priority]

\* The insert with the due date left unbound.
InsertTodo_NoDueDate(db, task, due_date, priority) ==
    LET id == db.todo_id_seq
        db1 == [db EXCEPT !.todo_id_seq = @ + 1]
        row == [task |-> task, done |-> FALSE, due_date |-> NULL,
                completion_date |-> NULL, priority |-> priority]
    IN  IF id \in DOMAIN db.todos
        THEN [db |-> db1, res |-> "constraint", id |-> 0]
        ELSE [db |-> [db1 EXCEPT !.todos = Put(@, id, row)], res |-> "ok", id |-> id]

\* INSERT INTO todos (task, due_date, priority) VALUES (?1, ?2, ?3) RETURNING id:
\* id defaults to nextval('todo_id_seq') and is the PRIMARY KEY, done defaults
\* to 0, completion_date to NULL.  The sequence keeps the value it handed out
\* also when the insert fails.
InsertTodo(db, task, due_date, priority) ==
    LET id == db.todo_id_seq
        db1 == [db EXCEPT !.todo_id_seq = @ + 1]
        row == [task |-> task, done |-> FALSE, due_date |-> due_date,
                completion_date |-> NULL, priority |-> priority]
    IN  IF id \in DOMAIN db.todos
        THEN [db |-> db1, res |-> "constraint", id |-> 0]
        ELSE [db |-> [db1 EXCEPT !.todos = Put(@, id, row)], res |-> "ok", id |-> id]

\* d.format("%Y-%m-%d") of the NaiveDate, bound to the DATE column.
FormatDueDate(due_date) ==
    IF due_date = NULL THEN NULL ELSE DateOf(DaysOf(due_date))

add_task(db, task) ==
    Bind(InsertTodo(db, task.name, FormatDueDate(task.due_date), task.priority),
         LAMBDA i :
         IF i.res # "ok" THEN Err(i.db, i.res)
         ELSE Bind(IF task.category = None THEN Ok(i.db)
                   ELSE AttachCategory(i.db, i.id, task.category, FALSE),
                   LAMBDA c :
                   IF c.res # "ok" THEN c
                   ELSE AttachTags(c.db, i.id, task.tags)))

\* SELECT c.name FROM categories c JOIN todo_categories tc
\* ON c.id = tc.category_id WHERE tc.todo_id = ?1, first row if any.
get_task_category(db, task_id) ==
    LET rows == SelectSeq(db.todo_categories,
                          LAMBDA r : r[1] = task_id /\ r[2] \in DOMAIN db.categories)
    IN  IF rows = <<>> THEN None ELSE db.categories[rows[1][2]]

\* SELECT t.name FROM tags t JOIN todo_tags tt ON t.id = tt.tag_id
\* WHERE tt.todo_id = ?1
get_task_tags(db, task_id) ==
    LET rows == SelectSeq(db.todo_tags,
                          LAMBDA r : r[1] = task_id /\ r[2] \in DOMAIN db.tags)
    IN  [k \in DOMAIN rows |-> db.tags[rows[k][2]]]

\* One row of todos as get_tasks maps it to a Task.
RowToTask(db, id) ==
    [id |-> id, name |-> db.todos[id].task,
     category |-> get_task_category(db, id), tags |-> get_task_tags(db, id),
     done |-> db.todos[id].done, due_date |-> ReadDate(db.todos[id].due_date),
     completion_date |-> ReadDate(db.todos[id].completion_date),
     priority |-> db.todos[id].priority]

\* The keys of a set of rows in scan order.
RECURSIVE ScanOrder(_)
ScanOrder(ids) ==
    IF ids = {} THEN <<>>
    ELSE LET m == CHOOSE i \in ids : \A j \in ids : i <= j
         IN  <<m>> \o ScanOrder(ids \ {m})

\* The query without its WHERE clause, whatever done_only is.
get_tasks_Unfiltered(db, done_only) ==
    LET order == ScanOrder(DOMAIN db.todos)
    IN  [k \in DOMAIN order |-> RowToTask(db, order[k])]

\* get_tasks(done_only): "None", "Some(true)" (WHERE done = 1) or
\* "Some(false)" (WHERE done = 0).
get_tasks(db, done_only) ==
    LET ids == {i \in DOMAIN db.todos :
                   \/ done_only = "None"
                   \/ done_only = "Some(true)" /\ db.todos[i].done
                   \/ done_only = "Some(false)" /\ ~db.todos[i].done}
        order == ScanOrder(ids)
    IN  [k \in DOMAIN order |-> RowToTask(db, order[k])]

\* handle_list: get_tasks(Some(done_only)), done_only being the flag
\* --done-only, false when the flag is not given.
handle_list(db, done_only) ==
    get_tasks(db, IF done_only THEN "Some(true)" ELSE "Some(false)")

\* str::contains: the pattern is a run of consecutive lexemes of the text.
Contains(text, pattern) ==
    \E i \in 0..(Len(text) - Len(pattern)) :
        SubSeq(text, i + 1, i + Len(pattern)) = pattern

\* The search that looks at the name only.
find_tasks_NameOnly(db, query) ==
    SelectSeq(get_tasks(db, "None"), LAMBDA t : Contains(t.name, query))

\* Search::find_tasks: get_tasks(None) filtered, in its order.
find_tasks(db, query) ==
    SelectSeq(get_tasks(db, "None"),
              LAMBDA t : \/ Contains(t.name, query)
                         \/ (t.category # None /\ Contains(t.category, query))
                         \/ \E k \in DOMAIN t.tags : Contains(t.tags[k], query))

\* UPDATE todos SET done = 1, completion_date = CURRENT_DATE WHERE id = ?1
mark_task_done(db, id) ==
    IF id \in DOMAIN db.todos
    THEN Ok([db EXCEPT !.todos[id].done = TRUE, !.todos[id].completion_date = Today])
    ELSE Ok(db)

(***************************************************************************)
(* update_task builds its UPDATE by interpolation; the statement is built  *)
(* here lexeme by lexeme and then read as the engine reads it.             *)
(***************************************************************************)
\* updates.join(", ")
RECURSIVE Join(_)
Join(parts) ==
    IF parts = <<>> THEN <<>>
    ELSE IF Len(parts) = 1 THEN parts[1]
    ELSE parts[1] \o <<",">> \o Join(Tail(parts))

\* The vector `updates` of update_task.  a.new_priority is {} or {p}.
UpdateList(a) ==
    (IF a.new_task # None
     THEN << <<"task", "=", "'">> \o a.new_task \o <<"'">> >> ELSE <<>>) \o
    (IF a.new_due_date # NULL
     THEN << <<"due_date", "=", "'", a.new_due_date, "'">> >> ELSE <<>>) \o
    (IF a.new_priority # {}
     THEN << <<"priority", "=", IntToStr(CHOOSE p \in a.new_priority : TRUE)>> >>
     ELSE <<>>) \o
    (IF a.mark_undone
     THEN << <<"done", "=", "0">>, <<"completion_date", "=", "NULL">> >> ELSE <<>>)

\* format!("UPDATE todos SET {} WHERE id = ?1", updates.join(", ")), after
\* its first three lexemes.
UpdateSql(updates) == Join(updates) \o <<"WHERE", "id", "=", "?1">>

SqlColumns == {"task", "done", "due_date", "completion_date", "priority"}

NoParse == [ok |-> FALSE, kind |-> "", val |-> <<>>, sets |-> <<>>, atoms |-> {},
            next |-> 0]

\* A value: a quoted literal up to the next quote, NULL, or a number.
ParseValue(s, i) ==
    IF i > Len(s) THEN NoParse
    ELSE IF s[i] = "'"
    THEN LET close == {j \in (i + 1)..Len(s) : s[j] = "'"}
         IN  IF close = {} THEN NoParse
             ELSE LET j == CHOOSE k \in close : \A m \in close : k <= m
                  IN  [NoParse EXCEPT !.ok = TRUE, !.kind = "text",
                                      !.val = SubSeq(s, i + 1, j - 1), !.next = j + 1]
    ELSE IF s[i] = "NULL"
    THEN [NoParse EXCEPT !.ok = TRUE, !.kind = "null", !.next = i + 1]
    ELSE IF IsNumTok(s[i])
    THEN [NoParse EXCEPT !.ok = TRUE, !.kind = "num", !.val = <<s[i]>>, !.next = i + 1]
    ELSE NoParse

\* column = value {, column = value}
RECURSIVE ParseAssignments(_, _, _)
ParseAssignments(s, i, acc) ==
    IF i + 1 > Len(s) \/ s[i] \notin SqlColumns \/ s[i + 1] # "=" THEN NoParse
    ELSE Bind(ParseValue(s, i + 2), LAMBDA v :
              LET acc1 == Append(acc, [col |-> s[i], kind |-> v.kind, val |-> v.val])
              IN  IF ~v.ok THEN NoParse
                  ELSE IF v.next <= Len(s) /\ s[v.next] = ","
                  THEN ParseAssignments(s, v.next + 1, acc1)
                  ELSE [NoParse EXCEPT !.ok = TRUE, !.sets = acc1, !.next = v.next])

\* atom {OR atom}, an atom being id = ?1 or number = number
RECURSIVE ParseCondition(_, _, _)
ParseCondition(s, i, acc) ==
    IF i + 2 > Len(s) \/ s[i + 1] # "=" THEN NoParse
    ELSE LET atom == IF s[i] = "id" /\ s[i + 2] = "?1" THEN "id"
                     ELSE IF IsNumTok(s[i]) /\ IsNumTok(s[i + 2])
                     THEN (IF s[i] = s[i + 2] THEN "true" ELSE "false")
                     ELSE "bad"
             acc1 == acc \cup {atom}
         IN  IF atom = "bad" THEN NoParse
             ELSE IF i + 3 <= Len(s) /\ s[i + 3] = "OR"
             THEN ParseCondition(s, i + 4, acc1)
             ELSE [NoParse EXCEPT !.ok = TRUE, !.atoms = acc1, !.next = i + 3]

\* The statement: SET list, optional WHERE, then the end of the text or a
\* comment (-- to the end of the line).  where is FALSE for no WHERE clause.
ParseUpdate(s) ==
    Bind(ParseAssignments(s, 1, <<>>), LAMBDA a :
         Bind(IF a.ok /\ a.next <= Len(s) /\ s[a.next] = "WHERE"
              THEN ParseCondition(s, a.next + 1, {})
              ELSE [a EXCEPT !.atoms = {"true"}],
              LAMBDA c :
              LET atEnd == c.next > Len(s) \/ s[c.next] = "--"
              IN  IF ~a.ok \/ ~c.ok \/ ~atEnd
                  THEN [ok |-> FALSE, sets |-> <<>>, atoms |-> {}]
                  ELSE [ok |-> TRUE, sets |-> a.sets, atoms |-> c.atoms]))

\* The value a column takes from a parsed value; "error" when the cast or a
\* NOT NULL constraint refuses it.
Convert(col, kind, val) ==
    CASE col = "task" ->
           IF kind = "null" THEN "error" ELSE val
      [] col = "done" ->
           IF kind # "null" /\ val = <<"1">> THEN TRUE
           ELSE IF kind # "null" /\ val = <<"0">> THEN FALSE
           ELSE "error"
      [] col = "priority" ->
           IF kind = "null" THEN NULL
           ELSE IF Len(val) = 1 /\ IsNumTok(val[1]) THEN StrToInt(val[1])
           ELSE "error"
      [] OTHER ->
           IF kind = "null" THEN NULL
           ELSE IF kind = "text" /\ Len(val) = 1 /\ IsDate(val[1]) THEN val[1]
           ELSE "error"

Converts(col, kind, val) ==
    CASE col = "task" -> kind # "null"
      [] col = "done" -> kind # "null" /\ val \in {<<"0">>, <<"1">>}
      [] col = "priority" -> kind = "null" \/ (Len(val) = 1 /\ IsNumTok(val[1]))
      [] OTHER -> kind = "null" \/ (kind = "text" /\ Len(val) = 1 /\ IsDate(val[1]))

RECURSIVE ApplySets(_, _)
ApplySets(row, sets) ==
    IF sets = <<>> THEN row
    ELSE ApplySets([row EXCEPT ![Head(sets).col] =
                        Convert(Head(sets).col, Head(sets).kind, Head(sets).val)],
                   Tail(sets))

\* self.conn.execute(&sql, &[&id]): prepare, bind the one parameter, run.
ExecUpdate(db, sql, id) ==
    Bind(ParseUpdate(sql), LAMBDA p :
         LET hit == {i \in DOMAIN db.todos :
                        "true" \in p.atoms \/ ("id" \in p.atoms /\ i = id)}
         IN  IF ~p.ok THEN Err(db, "parser")
             ELSE IF \E i, j \in DOMAIN p.sets :
                        i # j /\ p.sets[i].col = p.sets[j].col
             THEN Err(db, "binder")
             ELSE IF "id" \notin p.atoms THEN Err(db, "parameter count")
             ELSE IF \E i \in DOMAIN p.sets :
                        ~Converts(p.sets[i].col, p.sets[i].kind, p.sets[i].val)
             THEN Err(db, "conversion")
             ELSE Ok([db EXCEPT !.todos =
                         [i \in DOMAIN @ |-> IF i \in hit
                                             THEN ApplySets(@[i], p.sets)
                                             ELSE @[i]]]))

\* t.split(',')
RECURSIVE SplitComma(_, _)
SplitComma(s, cur) ==
    IF s = <<>> THEN <<cur>>
    ELSE IF Head(s) = "," THEN <<cur>> \o SplitComma(Tail(s), <<>>)
    ELSE SplitComma(Tail(s), Append(cur, Head(s)))

\* s.trim()
RECURSIVE Trim(_)
Trim(s) ==
    IF s # <<>> /\ Head(s) = " " THEN Trim(Tail(s))
    ELSE IF s # <<>> /\ s[Len(s)] = " " THEN Trim(SubSeq(s, 1, Len(s) - 1))
    ELSE s

\* new_tags.iter().flat_map(|t| t.split(',').map(|s| s.trim())).collect()
RECURSIVE TagsList(_)
TagsList(new_tags) ==
    IF new_tags = <<>> THEN <<>>
    ELSE LET parts == SplitComma(Head(new_tags), <<>>)
         IN  [k \in DOMAIN parts |-> Trim(parts[k])] \o TagsList(Tail(new_tags))

\* a: [new_task, new_due_date, new_category, new_tags, new_priority, mark_undone]
update_task(db, id, a) ==
    Bind(IF UpdateList(a) # <<>> THEN ExecUpdate(db, UpdateSql(UpdateList(a)), id)
         ELSE Ok(db),
         LAMBDA u :
         IF u.res # "ok" THEN u
         ELSE Bind(IF a.new_category # None
                   THEN AttachCategory(u.db, id, a.new_category, TRUE)
                   ELSE Ok(u.db),
                   LAMBDA c :
                   IF c.res # "ok" THEN c
                   ELSE IF a.new_tags # <<>>
                   THEN AttachTags(DeleteTodoTags(c.db, id), id, TagsList(a.new_tags))
                   ELSE Ok(c.db)))

(***************************************************************************)
(* Import and export.  A file is its format and its rows as that format    *)
(* writes them: every cell is text, and a NULL is the empty cell in CSV    *)
(* and null in the other formats.                                          *)
(***************************************************************************)
NoFile == [format |-> "none", rows |-> <<>>]

BoolToStr(b) == IF b THEN "true" ELSE "false"

NullCell(format) == IF format = "csv" THEN "" ELSE "null"

\* A row of todos as COPY ... TO writes it.
EncodeRow(format, id, row) ==
    [id |-> IntToStr(id), task |-> row.task, done |-> BoolToStr(row.done),
     due_date |-> IF row.due_date = NULL THEN NullCell(format) ELSE row.due_date,
     completion_date |-> IF row.completion_date = NULL THEN NullCell(format)
                         ELSE row.completion_date,
     priority |-> IntToStr(row.priority)]

\* A row of a file as the reader hands it to the INSERT.
DecodeRow(format, r) ==
    [id |-> StrToInt(r.id), task |-> r.task, done |-> (r.done = "true"),
     due_date |-> IF r.due_date = NullCell(format) THEN NULL ELSE r.due_date,
     completion_date |-> IF r.completion_date = NullCell(format) THEN NULL
                         ELSE r.completion_date,
     priority |-> StrToInt(r.priority)]

\* COPY todos TO '<file>' (FORMAT ...)
ExportRows(db, format) ==
    LET order == ScanOrder(DOMAIN db.todos)
    IN  [format |-> format,
         rows |-> [k \in DOMAIN order |-> EncodeRow(format, order[k], db.todos[order[k]])]]

\* The five columns of todos besides its key.
TodoColumns(r) ==
    [task |-> r.task, done |-> r.done, due_date |-> r.due_date,
     completion_date |-> r.completion_date, priority |-> r.priority]

\* INSERT OR IGNORE taken for an insert that overwrites.
RECURSIVE InsertOrIgnoreTodos_Overwrite(_, _)
InsertOrIgnoreTodos_Overwrite(table, rows) ==
    IF rows = <<>> THEN table
    ELSE InsertOrIgnoreTodos_Overwrite(Put(table, Head(rows).id, TodoColumns(Head(rows))),
                                       Tail(rows))

\* INSERT OR IGNORE INTO todos SELECT * FROM <reader>: a row whose id is
\* already a key of todos is dropped.
RECURSIVE InsertOrIgnoreTodos(_, _)
InsertOrIgnoreTodos(table, rows) ==
    IF rows = <<>> THEN table
    ELSE LET r == Head(rows)
         IN  InsertOrIgnoreTodos(IF r.id \in DOMAIN table THEN table
                                 ELSE Put(table, r.id, TodoColumns(r)),
                                 Tail(rows))

\* INSERT OR REPLACE taken for an insert that keeps the row it meets.
RECURSIVE InsertOrReplaceTodos_Keep(_, _)
InsertOrReplaceTodos_Keep(table, rows) ==
    IF rows = <<>> THEN table
    ELSE InsertOrReplaceTodos_Keep(IF Head(rows).id \in DOMAIN table THEN table
                                   ELSE Put(table, Head(rows).id, TodoColumns(Head(rows))),
                                   Tail(rows))

\* INSERT OR REPLACE INTO todos SELECT * FROM <reader>: a row whose id is
\* already a key of todos takes the place of that row's columns.
RECURSIVE InsertOrReplaceTodos(_, _)
InsertOrReplaceTodos(table, rows) ==
    IF rows = <<>> THEN table
    ELSE InsertOrReplaceTodos(Put(table, Head(rows).id, TodoColumns(Head(rows))),
                              Tail(rows))

\* The strategy remove taken at its word: the rows of the file replace the table.
LoadColumns_Truncating(table, rows, next_id) ==
    [i \in next_id..(next_id + Len(rows) - 1) |-> TodoColumns(rows[i - next_id + 1])]

\* The load that keeps the id column of the file.
RECURSIVE LoadColumns_KeepIds(_, _, _)
LoadColumns_KeepIds(table, rows, next_id) ==
    IF rows = <<>> THEN table
    ELSE LoadColumns_KeepIds(Put(table, Head(rows).id, TodoColumns(Head(rows))),
                             Tail(rows), next_id + 1)

\* COPY todos (task, done, due_date, completion_date, priority) FROM <file>:
\* every row is a new row whose id is the next value of todo_id_seq.
RECURSIVE LoadColumns(_, _, _)
LoadColumns(table, rows, next_id) ==
    IF rows = <<>> THEN table
    ELSE LoadColumns(Put(table, next_id, TodoColumns(Head(rows))), Tail(rows),
                     next_id + 1)

\* The import that takes every strategy for skip.
import_from_AnyStrategy(db, format, f, strategy) ==
    IF f.format # format THEN Err(db, "io")
    ELSE Ok([db EXCEPT !.todos =
                InsertOrIgnoreTodos(@, [k \in DOMAIN f.rows |->
                                           DecodeRow(format, f.rows[k])])])

\* import_from_json, import_from_parquet, import_from_excel, import_from_csv:
\* the strategy picks the statement, which then runs as a whole or not at all.
import_from(db, format, f, strategy) ==
    LET rows == [k \in DOMAIN f.rows |-> DecodeRow(format, f.rows[k])]
        ids == {rows[k].id : k \in DOMAIN rows}
        n == Len(rows)
        fresh == db.todo_id_seq..(db.todo_id_seq + n - 1)
    IN  IF strategy \notin {"skip", "remove", "upsert"}
        THEN Err(db, "Unsupported strategy")
        ELSE IF f.format # format THEN Err(db, "io")
        ELSE IF strategy = "skip"
        THEN Ok([db EXCEPT !.todos = InsertOrIgnoreTodos(@, rows)])
        ELSE IF strategy = "upsert"
        THEN IF Cardinality(ids) # n THEN Err(db, "invalid input")
             ELSE Ok([db EXCEPT !.todos = InsertOrReplaceTodos(@, rows)])
        ELSE IF format = "csv" THEN Err(db, "conversion")
        ELSE IF fresh \cap DOMAIN db.todos # {}
        THEN Err([db EXCEPT !.todo_id_seq = @ + n], "constraint")
        ELSE Ok([db EXCEPT !.todo_id_seq = @ + n,
                           !.todos = LoadColumns(@, rows, db.todo_id_seq)])

\* import_from_excel: INSTALL spatial and LOAD spatial run first, and fail
\* when the extension cannot be installed or loaded (spatial = FALSE); then
\* the strategy picks the statement, which reads the file through st_read.
\* On the connection of a run spatial is TRUE: Database::new installed and
\* loaded the extension, or the run ended there.
import_from_excel(db, f, strategy, spatial) ==
    IF ~spatial THEN Err(db, "extension")
    ELSE IF strategy \notin {"skip", "remove", "upsert"}
    THEN Err(db, "Unsupported strategy")
    ELSE IF f.format # "xlsx" THEN Err(db, "gdal")
    ELSE import_from(db, "xlsx", f, strategy)

\* Files a user hands to import: rows written by hand.
UserFiles ==
    {[format |-> "json",
      rows |-> <<[id |-> "1", task |-> <<"m">>, done |-> "true",
                  due_date |-> "null", completion_date |-> "null",
                  priority |-> "5"],
                 [id |-> "2", task |-> <<"n">>, done |-> "false",
                  due_date |-> "2025-01-01", completion_date |-> "null",
                  priority |-> "0"]>>]}

(***************************************************************************)
(* Errors as the CLI renders them.  A message is its sequence of words,    *)
(* punctuation apart.                                                      *)
(***************************************************************************)
\* The message the engine or its binding gives for a failed statement.
DuckDbMessage(res) ==
    CASE res = "constraint" ->
           <<"Constraint", "Error", ":", "Duplicate", "key", "violates", "primary",
             "key", "constraint">>
      [] res = "foreign key" ->
           <<"Constraint", "Error", ":", "Violates", "foreign", "key", "constraint">>
      [] res = "parser" -> <<"Parser", "Error", ":", "syntax", "error">>
      [] res = "binder" ->
           <<"Binder", "Error", ":", "Multiple", "assignments", "to", "same", "column">>
      [] res = "parameter count" ->
           <<"Wrong", "number", "of", "parameters", "passed", "to", "query">>
      [] res = "conversion" -> <<"Conversion", "Error", ":", "Could", "not", "convert">>
      [] res = "invalid input" ->
           <<"Invalid", "Input", "Error", ":", "can", "not", "update", "the", "same",
             "row", "twice">>
      [] res = "gdal" -> <<"IO", "Error", ":", "GDAL", "Error", ":", "not", "recognized">>
      [] res = "extension" ->
           <<"IO", "Error", ":", "Failed", "to", "download", "extension">>
      [] res = "no rows" -> <<"Query", "returned", "no", "rows">>
      [] OTHER -> <<"Invalid", "Input", "Error", ":", "Could", "not", "read", "file">>

\* The TodoError a failed operation returns: Custom for the messages the
\* program makes itself, DuckDB (From<duckdb::Error>) for the others.
TodoError(res) ==
    IF res = "Unsupported strategy" THEN [kind |-> "Custom", msg |-> <<"Unsupported", "strategy">>]
    ELSE IF res = "Category already exists."
    THEN [kind |-> "Custom", msg |-> <<"Category", "already", "exists", ".">>]
    ELSE IF res = "Tag already exists."
    THEN [kind |-> "Custom", msg |-> <<"Tag", "already", "exists", ".">>]
    ELSE [kind |-> "DuckDB", msg |-> DuckDbMessage(res)]

\* impl fmt::Display for TodoError
to_string(e) ==
    IF e.kind = "DuckDB"
    THEN IF Contains(e.msg, <<"GDAL", "Error">>)
         THEN <<"There", "was", "an", "issue", "with", "file", "access", ":">> \o e.msg
              \o <<".", "Please", "ensure", "the", "file", "exists", "and", "the",
                   "path", "is", "correct", ".">>
         ELSE <<"A", "database", "error", "occurred", ":">> \o e.msg
              \o <<".", "Please", "ensure", "your", "database", "setup", "is",
                   "correct", ".">>
    ELSE IF e.kind = "Io"
    THEN <<"There", "was", "an", "input/output", "error", ":">> \o e.msg
         \o <<".", "Please", "check", "your", "file", "paths", "and", "permissions", ".">>
    ELSE e.msg

\* The words of the messages that hold an upper-case letter, with their
\* lower-case forms.
LowerCase ==
    {<<"A", "a">>, <<"Binder", "binder">>, <<"Category", "category">>,
     <<"Constraint", "constraint">>, <<"Conversion", "conversion">>,
     <<"Could", "could">>, <<"Duplicate", "duplicate">>, <<"Error", "error">>,
     <<"Failed", "failed">>, <<"GDAL", "gdal">>, <<"IO", "io">>,
     <<"Input", "input">>, <<"Invalid", "invalid">>, <<"Multiple", "multiple">>,
     <<"Parser", "parser">>, <<"Please", "please">>, <<"Query", "query">>,
     <<"Tag", "tag">>, <<"There", "there">>, <<"Unsupported", "unsupported">>,
     <<"Violates", "violates">>, <<"Wrong", "wrong">>}

\* str::to_lowercase
to_lowercase(text) ==
    [k \in DOMAIN text |->
        IF \E p \in LowerCase : p[1] = text[k]
        THEN (CHOOSE p \in LowerCase : p[1] = text[k])[2]
        ELSE text[k]]

\* The table known_errors of handle_db_error, in its order.
known_errors ==
    << <<<<"no", "such", "file", "or", "directory">>,
         "File not found. Check the path and try again.">>,
       <<<<"constraint">>, "This item already exists. Please check your input.">>,
       <<<<"foreign", "key">>,
         "Item is still in use. Ensure it is not linked elsewhere.">>,
       <<<<"gdal", "error">>,
         "GDAL issue occurred. Check file permissions and existence.">> >>

\* The loop of handle_db_error from entry k of the table on.
RECURSIVE FirstKnown(_, _)
FirstKnown(error_message, k) ==
    IF k > Len(known_errors) THEN "Unexpected error occurred. Please check the logs."
    ELSE IF Contains(error_message, known_errors[k][1]) THEN known_errors[k][2]
    ELSE FirstKnown(error_message, k + 1)

\* handle_db_error: the line it prints.
handle_db_error(e) == FirstKnown(to_lowercase(to_string(e)), 1)

\* What the handler of a subcommand prints for the result of its operation.
Printed(op, res) ==
    LET text == to_lowercase(to_string(TodoError(res)))
    IN  CASE op \in {"add_task", "mark_task_done", "update_task"} ->
               IF res = "ok" THEN "" ELSE handle_db_error(TodoError(res))
          [] op = "add_category" ->
               IF res = "ok" THEN "Added category"
               ELSE IF Contains(text, <<"constraint">>)
               THEN "Error: A category with the same name already exists."
               ELSE "An error occurred while adding the category"
          [] op = "add_tag" ->
               IF res = "ok" THEN "Added tag"
               ELSE IF Contains(text, <<"constraint">>)
               THEN "Error: A tag with the same name already exists."
               ELSE "An error occurred while adding the tag"
          [] op = "delete_category" ->
               IF res = "ok" THEN "Deleted category"
               ELSE IF Contains(text, <<"foreign", "key">>)
               THEN "Error: Cannot delete category because it is still used by some tasks."
               ELSE "An error occurred while deleting the category"
          [] op = "delete_tag" ->
               IF res = "ok" THEN "Deleted tag"
               ELSE IF Contains(text, <<"foreign", "key">>)
               THEN "Error: Cannot delete tag because it is still used by some tasks."
               ELSE "An error occurred while deleting the tag"
          [] op = "import" -> IF res = "ok" THEN "Data imported successfully" ELSE ""
          [] op = "export" -> IF res = "ok" THEN "Data exported successfully" ELSE ""
          [] OTHER -> ""

\* The steps of run that hand their error to its caller (`?`): Database::new
\* and the handlers of list, import and export.
Propagating == {"open", "list", "import", "export"}

\* main: exit(1) when run returns an error, the exit code of a normal end
\* otherwise.
ExitCode(op, res) == IF op \in Propagating /\ res # "ok" THEN 1 ELSE 0

(***************************************************************************)
(* The state machine: one action per subcommand of the CLI.  last records  *)
(* the operation just performed, its arguments and its result, what the    *)
(* handler printed, the tasks it showed, and the exit code of the process. *)
(***************************************************************************)
Store(db) ==
    /\ todos' = db.todos
    /\ todo_id_seq' = db.todo_id_seq
    /\ categories' = db.categories
    /\ category_id_seq' = db.category_id_seq
    /\ tags' = db.tags
    /\ tag_id_seq' = db.tag_id_seq
    /\ todo_categories' = db.todo_categories
    /\ todo_tags' = db.todo_tags

\* One run of the process: the subcommand's operation on the store, the line
\* its handler prints, the tasks it shows and the exit code.
Finish(op, id, args, r, shown) ==
    /\ Store(r.db)
    /\ last' = [op |-> op, id |-> id, args |-> args, res |-> r.res,
                out |-> Printed(op, r.res), shown |-> shown,
                exit |-> ExitCode(op, r.res)]
    /\ steps' = steps + 1

Done(op, id, args, r) == Finish(op, id, args, r, <<>>)

\* Ids handed to done and update: those of the tasks, and one of no task.
IdArgs == DOMAIN todos \cup {todo_id_seq}

\* Tasks handed to add_task: the task of the tests, one with two tags, and
\* one with a quote in its text, no category, no due date and no tag.
AddTasks ==
    {NewTask(<<"a">>, <<"Personal">>, "2024-12-31", << <<"test">> >>, 1),
     NewTask(<<"a">>, <<"Personal">>, NULL, << <<"test">>, <<"urgent">> >>, 1),
     NewTask(<<"it", "'", "s">>, None, NULL, <<>>, 1)}

NoUpdate ==
    [new_task |-> None, new_due_date |-> NULL, new_category |-> None,
     new_tags |-> <<>>, new_priority |-> {}, mark_undone |-> FALSE]

\* Arguments of update_task: each field alone, all fields at once, and each
\* text holding a quote, alone, with a priority, with --undone or with all
\* the other fields.
UpdateArgs ==
    {[NoUpdate EXCEPT !.new_task = <<"b">>],
     [NoUpdate EXCEPT !.new_due_date = "2025-01-01"],
     [NoUpdate EXCEPT !.new_category = <<"Work">>],
     [NoUpdate EXCEPT !.new_tags = << <<"updated", ",", " ", "test">> >>],
     [NoUpdate EXCEPT !.new_priority = {2}],
     [NoUpdate EXCEPT !.mark_undone = TRUE],
     [new_task |-> <<"b">>, new_due_date |-> "2025-01-01",
      new_category |-> <<"Work">>, new_tags |-> << <<"updated">> >>,
      new_priority |-> {2}, mark_undone |-> FALSE]}
    \cup {[NoUpdate EXCEPT !.new_task = n] : n \in QuotedNames}
    \cup {[NoUpdate EXCEPT !.new_task = n, !.new_priority = {2}] : n \in QuotedNames}
    \cup {[NoUpdate EXCEPT !.new_task = n, !.mark_undone = TRUE] : n \in QuotedNames}
    \cup {[new_task |-> n, new_due_date |-> "2025-01-01",
           new_category |-> <<"Work">>, new_tags |-> << <<"updated">> >>,
           new_priority |-> {2}, mark_undone |-> FALSE] : n \in QuotedNames}

Init ==
    /\ todos = NewDb.todos
    /\ todo_id_seq = NewDb.todo_id_seq
    /\ categories = NewDb.categories
    /\ category_id_seq = NewDb.category_id_seq
    /\ tags = NewDb.tags
    /\ tag_id_seq = NewDb.tag_id_seq
    /\ todo_categories = NewDb.todo_categories
    /\ todo_tags = NewDb.todo_tags
    /\ file = NoFile
    /\ last = [op |-> "new", id |-> 0, args |-> <<>>, res |-> "ok",
               out |-> "", shown |-> <<>>, exit |-> 0]
    /\ steps = 0

AddTask ==
    /\ steps < MaxOps
    /\ \E task \in AddTasks :
          Done("add_task", todo_id_seq, task, add_task(Conn, task))
    /\ UNCHANGED file

MarkTaskDone ==
    /\ steps < MaxOps
    /\ \E id \in IdArgs : Done("mark_task_done", id, <<>>, mark_task_done(Conn, id))
    /\ UNCHANGED file

UpdateTask ==
    /\ steps < MaxOps
    /\ \E id \in IdArgs, a \in UpdateArgs :
          Done("update_task", id, a, update_task(Conn, id, a))
    /\ UNCHANGED file

AddCategory ==
    /\ steps < MaxOps
    /\ \E name \in CategoryNames :
          Done("add_category", 0, name, add_category(Conn, name))
    /\ UNCHANGED file

DeleteCategory ==
    /\ steps < MaxOps
    /\ \E name \in CategoryNames :
          Done("delete_category", 0, name, delete_category(Conn, name))
    /\ UNCHANGED file

AddTag ==
    /\ steps < MaxOps
    /\ \E name \in TagNames : Done("add_tag", 0, name, add_tag(Conn, name))
    /\ UNCHANGED file

DeleteTag ==
    /\ steps < MaxOps
    /\ \E name \in TagNames : Done("delete_tag", 0, name, delete_tag(Conn, name))
    /\ UNCHANGED file

\* import: a file written by hand, or the file of the last export.  The
\* spatial extension is loaded on the connection (Database::new).
Import ==
    /\ steps < MaxOps
    /\ \E format \in ImportFormats, strategy \in Strategies,
          f \in UserFiles \cup (IF file = NoFile THEN {} ELSE {file}) :
          Done("import", 0, [format |-> format, strategy |-> strategy, file |-> f],
               IF format = "xlsx" THEN import_from_excel(Conn, f, strategy, TRUE)
               ELSE import_from(Conn, format, f, strategy))
    /\ UNCHANGED file

Export ==
    /\ steps < MaxOps
    /\ \E format \in Formats :
          /\ file' = ExportRows(Conn, format)
          /\ Done("export", 0, format, Ok(Conn))

\* list, with or without --done-only.
List ==
    /\ steps < MaxOps
    /\ \E done_only \in BOOLEAN :
          Finish("list", 0, done_only, Ok(Conn), handle_list(Conn, done_only))
    /\ UNCHANGED file

\* search QUERY
SearchTasks ==
    /\ steps < MaxOps
    /\ \E query \in Queries :
          Finish("search", 0, query, Ok(Conn), find_tasks(Conn, query))
    /\ UNCHANGED file

\* A run whose Database::new fails at INSTALL or LOAD of an extension: run
\* returns the error before it reads the subcommand.
OpenFails ==
    /\ steps < MaxOps
    /\ Finish("open", 0, <<>>, Err(DB, "extension"), <<>>)
    /\ UNCHANGED file

Next ==
    \/ AddTask
    \/ MarkTaskDone
    \/ UpdateTask
    \/ List
    \/ SearchTasks
    \/ OpenFails
    \/ AddCategory
    \/ DeleteCategory
    \/ AddTag
    \/ DeleteTag
    \/ Import
    \/ Export

Spec == Init /\ [][Next]_vars

(***************************************************************************)
(* Properties.                                                             *)
(***************************************************************************)
\* The task with key id as get_tasks(None) returns it.
Listed(id) == RowToTask(DB, id)

\* A task without its id, its tags as a set.
Content(t) ==
    [name |-> t.name, category |-> t.category, tags |-> Range(t.tags),
     done |-> t.done, due_date |-> t.due_date,
     completion_date |-> t.completion_date, priority |-> t.priority]

UpdateOn(id) == last.op = "update_task" /\ last.id = id /\ id \in DOMAIN todos

\* The rows of the file of the import just performed, as read.
ImportedRows ==
    [k \in DOMAIN last.args.file.rows |->
        DecodeRow(last.args.format, last.args.file.rows[k])]

ImportOk(strategy) ==
    last.op = "import" /\ last.res = "ok" /\ last.args.strategy = strategy

C2_DoneAndUndone ==
    /\ (last.op = "mark_task_done" /\ last.id \in DOMAIN todos) =>
          (Listed(last.id).done /\ Listed(last.id).completion_date = Today)
    /\ (UpdateOn(last.id) /\ last.args.mark_undone /\ last.res = "ok") =>
          (~Listed(last.id).done /\ Listed(last.id).completion_date = NULL)

\* C3: in every reachable state each task has a completion date if and only
\* if it is done.
C3_CompletionIffDone ==
    \A id \in DOMAIN todos : (Listed(id).completion_date # NULL) <=> Listed(id).done

\* C4: update_task(id, ...) leaves every field whose argument is absent as
\* it was before the call.
C4_UpdateFrame ==
    [][\A id \in DOMAIN todos :
          (last'.op = "update_task" /\ last'.id = id) =>
             LET a == last'.args
                 before == RowToTask(DB, id)
                 after == RowToTask(DB', id)
             IN  /\ a.new_task = None => after.name = before.name
                 /\ a.new_due_date = NULL => after.due_date = before.due_date
                 /\ a.new_category = None => after.category = before.category
                 /\ a.new_tags = <<>> => after.tags = before.tags
                 /\ a.new_priority = {} => after.priority = before.priority
                 /\ ~a.mark_undone =>
                       /\ after.done = before.done
                       /\ after.completion_date = before.completion_date]_vars

\* C5: an import with strategy skip leaves every task that was in the store
\* as it was, and inserts the rows of the file whose ids were not in the store.
C5_SkipKeepsExisting ==
    [][ImportOk("skip")' =>
          /\ \A id \in DOMAIN todos :
                id \in DOMAIN todos' /\ RowToTask(DB', id) = RowToTask(DB, id)
          /\ \A k \in DOMAIN ImportedRows' :
                LET r == ImportedRows'[k]
                IN  r.id \notin DOMAIN todos =>
                       (r.id \in DOMAIN todos' /\ todos'[r.id] = TodoColumns(r))]_vars

\* A skip import met a task with the id of a row of the file and kept it,
\* and inserted the row of the file whose id was new.
C5_Witness ==
    /\ ImportOk("skip")
    /\ \E k \in DOMAIN ImportedRows :
          /\ ImportedRows[k].id \in DOMAIN todos
          /\ todos[ImportedRows[k].id] # TodoColumns(ImportedRows[k])
    /\ \E k \in DOMAIN ImportedRows :
          /\ ImportedRows[k].id \in DOMAIN todos
          /\ todos[ImportedRows[k].id] = TodoColumns(ImportedRows[k])

\* C6: after an import with strategy upsert every row of the file is in the
\* store with the fields of the file, also when the task of that id is
\* referenced by a row of a junction table.
C6_UpsertReplaces ==
    ImportOk("upsert") =>
        \A k \in DOMAIN ImportedRows :
            /\ ImportedRows[k].id \in DOMAIN todos
            /\ todos[ImportedRows[k].id] = TodoColumns(ImportedRows[k])

\* An upsert replaced a task that has a category and a tag.
C6_Witness ==
    /\ ImportOk("upsert")
    /\ \E k \in DOMAIN ImportedRows :
          /\ \E j \in DOMAIN todo_categories :
                todo_categories[j][1] = ImportedRows[k].id
          /\ \E j \in DOMAIN todo_tags : todo_tags[j][1] = ImportedRows[k].id

\* The tasks of a store, without their ids.
TaskSet(db) == {Content(RowToTask(db, id)) : id \in DOMAIN db.todos}

\* C7: exporting the store to a file and importing that file, same format,
\* into an empty store reproduces the tasks up to their ids.
C7_RoundTrip ==
    \A format \in Formats : \E strategy \in {"skip", "remove", "upsert"} :
        LET r == import_from(NewDb, format, ExportRows(DB, format), strategy)
        IN  /\ r.res = "ok"
            /\ Cardinality(DOMAIN r.db.todos) = Cardinality(DOMAIN todos)
            /\ TaskSet(r.db) = TaskSet(DB)

C9_UniqueNames ==
    /\ \A i, j \in DOMAIN categories : categories[i] = categories[j] => i = j
    /\ \A i, j \in DOMAIN tags : tags[i] = tags[j] => i = j

\* A second task was added with the category and the tag of a first one.
C9_Witness ==
    /\ last.op = "add_task" /\ last.res = "ok"
    /\ \E i, j \in DOMAIN todos :
          /\ i # j
          /\ Listed(i).category = <<"Personal">> /\ Listed(j).category = <<"Personal">>
          /\ <<"test">> \in Range(Listed(i).tags) \cap Range(Listed(j).tags)

\* C10: every task has at most one row in todo_categories.
C10_OneCategory ==
    \A id \in DOMAIN todos :
        Cardinality({k \in DOMAIN todo_categories : todo_categories[k][1] = id}) <= 1

\* update_task gave a new category to a task that was added with one.
C10_Witness ==
    /\ UpdateOn(last.id) /\ last.res = "ok"
    /\ last.args.new_category = <<"Work">>
    /\ todos[last.id].task = <<"a">>
    /\ category_id_seq > 3

\* C11: the process ends with exit code 1 when the operation of the
\* subcommand it ran returned an error, and with exit code 0 otherwise.
C11_ExitCode == last.exit = (IF last.res # "ok" THEN 1 ELSE 0)

\* An import that failed ended the process with exit code 1.
C11_Witness == last.op = "import" /\ last.res # "ok" /\ last.exit = 1

C13_ListAll ==
    last.op = "list" =>
        {last.shown[k].id : k \in DOMAIN last.shown} =
            (IF last.args THEN {id \in DOMAIN todos : todos[id].done} ELSE DOMAIN todos)

\* list without --done-only ran on a store that holds a task that is done.
C13_Witness ==
    /\ last.op = "list" /\ ~last.args
    /\ \E id \in DOMAIN todos : todos[id].done

\* The query is a run of consecutive lexemes of the name, of the category
\* or of a tag of the task.
Matches(t, q) ==
    LET In(text) == \E i \in 1..Len(text) :
                       /\ i + Len(q) - 1 <= Len(text)
                       /\ \A j \in 1..Len(q) : text[i + j - 1] = q[j]
    IN  \/ In(t.name)
        \/ (t.category # None /\ In(t.category))
        \/ \E k \in DOMAIN t.tags : In(t.tags[k])

C15_UpdateReplaces ==
    (/\ UpdateOn(last.id) /\ last.res = "ok"
     /\ last.args.new_task # None /\ last.args.new_due_date # NULL
     /\ last.args.new_category # None /\ last.args.new_tags # <<>>
     /\ last.args.new_priority # {}) =>
        /\ Listed(last.id).name = last.args.new_task
        /\ Listed(last.id).due_date = last.args.new_due_date
        /\ {Listed(last.id).priority} = last.args.new_priority
        /\ Listed(last.id).category = last.args.new_category
        /\ Cardinality({k \in DOMAIN todo_categories :
                           todo_categories[k][1] = last.id}) = 1
        /\ Listed(last.id).tags = TagsList(last.args.new_tags)

\* update_task with all five arguments replaced the name, category and tag
\* of a task that was added with a category and a tag.
C15_Witness ==
    /\ UpdateOn(last.id) /\ last.res = "ok"
    /\ last.args.new_task = <<"b">> /\ last.args.new_category = <<"Work">>
    /\ last.args.new_priority = {2}
    /\ Listed(last.id).tags = << <<"updated">> >>
    /\ <<"Personal">> \in list_categories(DB) /\ <<"test">> \in list_tags(DB)

\* C16: add-category (add-tag) with a name that is already in the table
\* reports the error "already exists" and adds no row, and reports success
\* only for a name that was not in the table.
C16_DuplicateReported ==
    [][/\ (last'.op = "add_category" /\ last'.args \in list_categories(DB)) =>
             /\ last'.out = "Error: A category with the same name already exists."
             /\ categories' = categories
       /\ (last'.op = "add_tag" /\ last'.args \in list_tags(DB)) =>
             /\ last'.out = "Error: A tag with the same name already exists."
             /\ tags' = tags
       /\ (last'.op = "add_category" /\ last'.out = "Added category") =>
             last'.args \notin list_categories(DB)
       /\ (last'.op = "add_tag" /\ last'.out = "Added tag") =>
             last'.args \notin list_tags(DB)]_vars

\* add-category ran with a name that is in the table.
C16_Witness ==
    /\ last.op = "add_category" /\ last.res = "ok"
    /\ \E i \in DOMAIN categories :
          categories[i] = last.args /\ i < category_id_seq - 1

UnsupportedImport ==
    last.op = "import" /\ last.args.strategy \notin {"skip", "remove", "upsert"}

\* C17: an import with a strategy other than skip, remove or
\* upsert returns the custom error "Unsupported strategy", whatever the
\* format, and leaves every table as it was.
C17_UnsupportedStrategy ==
    [][UnsupportedImport' =>
          /\ last'.res = "Unsupported strategy"
          /\ TodoError(last'.res).kind = "Custom"
          /\ DB' = DB]_vars

\* An import with the strategy replace was refused for a file that holds
\* rows, on a store that holds a task.
C17_Witness ==
    /\ UnsupportedImport /\ last.res = "Unsupported strategy"
    /\ last.args.format = "json" /\ last.args.file.format = "json"
    /\ last.args.file.rows # <<>>
    /\ DOMAIN todos # {}

\* The UPDATE of the update_task just performed, run on the store before it.
UpdateStatement(db, id, a) ==
    IF UpdateList(a) # <<>> THEN ExecUpdate(db, UpdateSql(UpdateList(a)), id)
    ELSE Ok(db)

\* C18: when update_task fails after its UPDATE, what the UPDATE wrote, the
\* category it created, the tag it created and the deletion of the old tag
\* links stay in the store; when add_task fails after its INSERT, the row of
\* todos stays in the store; the error is the result of the operation.
C18_NoRollback ==
    [][/\ (/\ last'.op = "update_task" /\ last'.res # "ok"
           /\ UpdateStatement(DB, last'.id, last'.args).res = "ok") =>
             /\ todos' = UpdateStatement(DB, last'.id, last'.args).db.todos
             /\ last'.args.new_category # None =>
                   last'.args.new_category \in list_categories(DB')
             /\ (last'.args.new_category = None /\ last'.args.new_tags # <<>>) =>
                   /\ TagsList(last'.args.new_tags)[1] \in list_tags(DB')
                   /\ \A k \in DOMAIN todo_tags' : todo_tags'[k][1] # last'.id
       /\ (/\ last'.op = "add_task" /\ last'.res # "ok"
           /\ todo_id_seq \notin DOMAIN todos) =>
             /\ todo_id_seq \in DOMAIN todos'
             /\ todos'[todo_id_seq].task = last'.args.name]_vars

\* update_task failed at the insert of the category link, for an id of no
\* task, and the category it created beforehand is in the store.
C18_Witness ==
    /\ last.op = "update_task" /\ last.res = "foreign key"
    /\ last.id \notin DOMAIN todos
    /\ last.args.new_category = <<"Work">>
    /\ <<"Work">> \in list_categories(DB)
    /\ \E id \in DOMAIN todos : todos[id].task = <<"x">>

HandledByDbError ==
    last.op \in {"add_task", "mark_task_done", "update_task"} /\ last.res # "ok"

\* C19: handle_db_error prints the hint of the first pattern of its table
\* that the lower-cased rendered error contains, the "Unexpected error" line
\* when it contains none, and for a foreign-key violation the hint "Item is
\* still in use".
C19_FirstPattern ==
    HandledByDbError =>
        LET m == to_lowercase(to_string(TodoError(last.res)))
            hits == {k \in DOMAIN known_errors : Contains(m, known_errors[k][1])}
        IN  /\ \A k \in hits :
                  (\A j \in hits : k <= j) => last.out = known_errors[k][2]
            /\ hits = {} =>
                  last.out = "Unexpected error occurred. Please check the logs."
            /\ last.res = "foreign key" =>
                  last.out = "Item is still in use. Ensure it is not linked elsewhere."

\* handle_db_error was given the error of a foreign-key violation.
C19_Witness == HandledByDbError /\ last.res = "foreign key"

\* C20: an import with strategy remove leaves every task that was in the
\* store as it was, and adds each row of the file, its columns task, done,
\* due_date, completion_date and priority, under the next ids of the sequence.
C20_RemoveOnlyAdds ==
    [][ImportOk("remove")' =>
          /\ \A id \in DOMAIN todos :
                id \in DOMAIN todos' /\ RowToTask(DB', id) = RowToTask(DB, id)
          /\ DOMAIN todos' \ DOMAIN todos =
                todo_id_seq..(todo_id_seq + Len(ImportedRows') - 1)
          /\ \A k \in DOMAIN ImportedRows' :
                todos'[todo_id_seq + k - 1] = TodoColumns(ImportedRows'[k])]_vars

\* An import with strategy remove added a row of the file under an id that
\* is not the id the file gives it, next to a task that was there before.
C20_Witness ==
    /\ ImportOk("remove")
    /\ \E id \in DOMAIN todos :
          /\ todos[id] = TodoColumns(ImportedRows[1])
          /\ id # ImportedRows[1].id
    /\ Cardinality(DOMAIN todos) > Len(ImportedRows)


(***************************************************************************)
(* C21: opening the store.                                                 *)
(***************************************************************************)
\* C21: Database::new on a store that holds the schema and data creates
\* nothing and leaves every table and every sequence as it is, so what one
\* run wrote is what the next run sees; a run that only opens or reads the
\* store leaves it as it is.
C21_OpenIdempotent ==
    /\ [](Database_new(DB) = DB /\ Database_new(Conn) = Conn)
    /\ [][last'.op \in {"open", "list", "search"} => DB' = DB]_vars

\* A run listed the tasks of a store in which an earlier run had written a
\* task with its category and a tag, all three sequences advanced.
C21_Witness ==
    /\ last.op = "list"
    /\ last.shown # <<>>
    /\ todo_categories # <<>>
    /\ todo_tags # <<>>
    /\ todo_id_seq > 1
    /\ category_id_seq > 1
    /\ tag_id_seq > 1
    /\ DB # Database_new(NoStore)


(***************************************************************************)
(* C22: deleting a category or a tag.                                      *)
(***************************************************************************)
\* Every row of the junction tables refers to a task and to a category or a
\* tag of the store.
RefIntegrity ==
    /\ \A k \in DOMAIN todo_categories :
          /\ todo_categories[k][1] \in DOMAIN todos
          /\ todo_categories[k][2] \in DOMAIN categories
    /\ \A k \in DOMAIN todo_tags :
          /\ todo_tags[k][1] \in DOMAIN todos
          /\ todo_tags[k][2] \in DOMAIN tags

\* The category (tag) of that name is linked to a task.
CategoryAttached(name) ==
    \E k \in DOMAIN todo_categories :
        todo_categories[k][2] \in IdsNamed(categories, name)

TagAttached(name) ==
    \E k \in DOMAIN todo_tags : todo_tags[k][2] \in IdsNamed(tags, name)

\* C22: delete_category (delete_tag) of a name linked to a task returns an
\* error and leaves every table as it was; of any other name it returns Ok,
\* removes the rows of that name, at most one, and nothing else.  So every
\* row of todo_categories and todo_tags refers to a task and to a category
\* or tag of the store, in every reachable state.
C22_DeleteKeepsReferences ==
    /\ []RefIntegrity
    /\ [][/\ last'.op = "delete_category" =>
               IF CategoryAttached(last'.args)
               THEN last'.res # "ok" /\ DB' = DB
               ELSE /\ last'.res = "ok"
                    /\ DB' = [DB EXCEPT !.categories =
                                 [i \in DOMAIN @ \ IdsNamed(categories, last'.args)
                                     |-> @[i]]]
                    /\ Cardinality(DOMAIN categories \ DOMAIN categories') <= 1
          /\ last'.op = "delete_tag" =>
               IF TagAttached(last'.args)
               THEN last'.res # "ok" /\ DB' = DB
               ELSE /\ last'.res = "ok"
                    /\ DB' = [DB EXCEPT !.tags =
                                 [i \in DOMAIN @ \ IdsNamed(tags, last'.args)
                                     |-> @[i]]]
                    /\ Cardinality(DOMAIN tags \ DOMAIN tags') <= 1]_vars

\* delete_category was refused for the category of a task, which is still in
\* the store with its link.
C22_Witness ==
    /\ last.op = "delete_category"
    /\ last.res = "foreign key"
    /\ CategoryAttached(last.args)
    /\ IdsNamed(categories, last.args) # {}


(***************************************************************************)
(* C23: the id of a new task.                                              *)
(***************************************************************************)
\* C23: add_task succeeds and gives the new task an id that no task of the
\* store has, whatever add, update, done and import operations came before.
C23_FreshId ==
    [][last'.op = "add_task" =>
          /\ last'.res = "ok"
          /\ last'.id \notin DOMAIN todos
          /\ last'.id \in DOMAIN todos'
          /\ todos'[last'.id].task = last'.args.name
          /\ \A i \in DOMAIN todos : todos'[i] = todos[i]]_vars

\* add_task was refused: the id the sequence handed out is the id of a task
\* that an import brought with its own id.
C23_Witness ==
    /\ last.op = "add_task"
    /\ last.res = "constraint"
    /\ last.id \in DOMAIN todos
    /\ todos[last.id].task # last.args.name
    /\ todo_id_seq = last.id + 1


(***************************************************************************)
(* C24: update_task and the other tasks.                                   *)
(***************************************************************************)
\* C24: update_task(id, ...) changes the task of that id only: every other
\* task keeps its fields, its category and its tags, whatever the new name
\* is, a text with a quote included, and the name stored for the task is the
\* text given.
C24_UpdateOnlyThat ==
    [][last'.op = "update_task" =>
          /\ \A j \in DOMAIN todos \ {last'.id} :
                /\ j \in DOMAIN todos'
                /\ RowToTask(DB', j) = RowToTask(DB, j)
          /\ (last'.id \in DOMAIN todos /\ last'.args.new_task # None) =>
                todos'[last'.id].task = last'.args.new_task]_vars

\* update_task returned Ok for a name whose quote ends the SQL literal and
\* whose text widens the WHERE clause: a task of another id has the name x.
C24_Witness ==
    /\ last.op = "update_task"
    /\ last.res = "ok"
    /\ last.args.new_task = <<"x", "'", "WHERE", "1", "=", "1", "OR", "id", "=", "?1", "--">>
    /\ last.id \in DOMAIN todos
    /\ \E j \in DOMAIN todos \ {last.id} : todos[j].task = <<"x">>
    /\ todos[last.id].task = <<"x">>

====
